---- MODULE Spec2Model ----
\* otto::itc -- Channel / Producer / Consumer (src/src/itc/itc.hpp).
\* Objects are identified by their address; the raw pointers of the source are
\* object ids and nullptr is 0.  A destroyed object keeps its id, so a pointer
\* to it that the code did not clear is a dangling pointer.
EXTENDS Integers, Sequences, FiniteSets, TLC

\* ---------------------------------------------------------------- bounds
MaxChannels == 2
MaxProducers == 2
MaxConsumers == 2
MaxState == 1
MaxLinks == 2
nIn == 2
nOut == 2

Channels == 1..MaxChannels
Producers == 1..MaxProducers
Consumers == 1..MaxConsumers
States == 0..MaxState

nullptr == 0
DefaultState == 0

VARIABLES
  chanLife,    \* Channel  -> "unborn" | "live" | "dead"
  prodLife,    \* Producer -> "unborn" | "live" | "dead"
  consLife,    \* Consumer -> "unborn" | "live" | "dead"
  consumers_,  \* Channel::consumers_  (a dead Channel keeps what its storage held)
  producer_,   \* Channel::producer_
  channels_,   \* Producer::channels_
  channel_,    \* Consumer::channel_
  state_,      \* Consumer::state_
  log,         \* what the on_new_state hooks recorded during the last produce()
  got,         \* Consumer -> has on_new_state ever been invoked on it
  orphaned,    \* Channels whose bound Producer has been destroyed
  last,        \* the operation that ran last
  crashed      \* the process was terminated by an invalid memory access

\* audio::jack (src/src/audio/jack.cpp): the thread that runs init() and the
\* JACK thread that invokes the process callback
VARIABLES
  jpc,             \* the statement of init() / setupPorts() that runs next
  ji,              \* the loop index i of setupPorts()
  doProcess,       \* GLOB.doProcess
  processCallback, \* process has been handed to jack_set_process_callback
  active,          \* jack_activate has succeeded
  portsIn,         \* GLOB.ports.in[i]: "unset" | "ok" | "null"
  portsOut,        \* GLOB.ports.outL, GLOB.ports.outR: "unset" | "ok" | "null"
  connIn,          \* connection of input port i: "no" | "yes" | "failed"
  connOut,         \* connection of output port i: "no" | "yes" | "failed"
  ppc,             \* the statement of process() that runs next, "idle" outside of it
  gate,            \* what the running or last process() read from GLOB.doProcess
  fetched,         \* the running or last process() has called jack_port_get_buffer
  fired,           \* how many of the four process events it has fired
  ret              \* what the last process() returned ("none" before the first return)

ivars == <<chanLife, prodLife, consLife, consumers_, producer_, channels_,
           channel_, state_, log, got, orphaned, last, crashed>>

jvars == <<jpc, ji, doProcess, processCallback, active, portsIn, portsOut,
           connIn, connOut, ppc, gate, fetched, fired, ret>>

vars == <<ivars, jvars>>

\* ---------------------------------------------------------------- helpers
Range(f) == {f[i] : i \in DOMAIN f}

\* a pop_back() in place of the erase
erase_pop_back(seq, v) == IF seq = << >> THEN seq ELSE SubSeq(seq, 1, Len(seq) - 1)

\* std::erase(vector, value): removes every occurrence, keeps the order
erase(seq, v) == SelectSeq(seq, LAMBDA x : x # v)

\* the last operation and its arguments (0 where it has none)
Op(name, p, ch, c, s) == [op |-> name, p |-> p, ch |-> ch, c |-> c, s |-> s]

\* objects are constructed in id order (ids are interchangeable)
NextFree(life, x) == life[x] = "unborn" /\ \A y \in DOMAIN life : y < x => life[y] # "unborn"

LiveChannels == {ch \in Channels : chanLife[ch] = "live"}
LiveProducers == {p \in Producers : prodLife[p] = "live"}
LiveConsumers == {c \in Consumers : consLife[c] = "live"}

\* A live Producer whose channels_ holds a pointer to a destroyed Channel
Dangling(p) == \E i \in DOMAIN channels_[p] : chanLife[channels_[p][i]] = "dead"

\* ---------------------------------------------------------------- Consumer
\* The hook of a recording subclass: it notes the incoming value and what
\* state() returns while it runs.  m = [state, log, got]
on_new_state(m, c, s) ==
  [m EXCEPT !.log = Append(@, [c |-> c, seen |-> m.state[c], arg |-> s]),
            !.got = [@ EXCEPT ![c] = TRUE]]

\* the cache written before the hook runs
Consumer_internal_produce_early(m, c, s) ==
  on_new_state([m EXCEPT !.state = [@ EXCEPT ![c] = s]], c, s)

Consumer_internal_produce(m, c, s) ==
  LET m1 == on_new_state(m, c, s)
  IN  [m1 EXCEPT !.state = [@ EXCEPT ![c] = s]]

\* ---------------------------------------------------------------- Channel
\* a store to state_ on registration paths that never calls the hook
RECURSIVE ForEachConsumer_nohook(_, _, _)
ForEachConsumer_nohook(m, cs, s) ==
  IF cs = << >> THEN m
  ELSE ForEachConsumer_nohook([m EXCEPT !.state = [@ EXCEPT ![Head(cs)] = s]], Tail(cs), s)

\* for (auto* cons : consumers_) cons->internal_produce(s);
\* A pointer to a destroyed Consumer can only be met in the storage of a
\* destroyed Channel; the write through it changes no live object.
RECURSIVE ForEachConsumer(_, _, _)
ForEachConsumer(m, cs, s) ==
  IF cs = << >> THEN m
  ELSE LET c == Head(cs)
           m1 == IF consLife[c] = "live" THEN Consumer_internal_produce(m, c, s) ELSE m
       IN  ForEachConsumer(m1, Tail(cs), s)

\* ub: what the read of a destroyed Channel's consumers_ yields,
\*   "empty" - nothing is iterated, "stale" - the pointers it last held
Channel_internal_produce(m, ch, s, ub) ==
  IF chanLife[ch] = "live" THEN ForEachConsumer(m, consumers_[ch], s)
  ELSE IF ub = "stale" THEN ForEachConsumer(m, consumers_[ch], s)
  ELSE m

\* ---------------------------------------------------------------- Producer
\* a loop that leaves after the first Channel
Producer_produce_first(m, chs, s, ub) ==
  IF chs = << >> THEN m ELSE Channel_internal_produce(m, Head(chs), s, ub)

\* Producer::produce: for (auto* chan : channels_) chan->internal_produce(s);
RECURSIVE Producer_produce(_, _, _, _)
Producer_produce(m, chs, s, ub) ==
  IF chs = << >> THEN m
  ELSE Producer_produce(Channel_internal_produce(m, Head(chs), s, ub), Tail(chs), s, ub)

\* ---------------------------------------------------------------- Init
Init ==
  /\ chanLife = [ch \in Channels |-> "unborn"]
  /\ prodLife = [p \in Producers |-> "unborn"]
  /\ consLife = [c \in Consumers |-> "unborn"]
  /\ consumers_ = [ch \in Channels |-> << >>]
  /\ producer_ = [ch \in Channels |-> nullptr]
  /\ channels_ = [p \in Producers |-> << >>]
  /\ channel_ = [c \in Consumers |-> nullptr]
  /\ state_ = [c \in Consumers |-> DefaultState]
  /\ log = << >>
  /\ got = [c \in Consumers |-> FALSE]
  /\ orphaned = {}
  /\ last = Op("init", 0, 0, 0, 0)
  /\ crashed = FALSE
  /\ jpc = "open"
  /\ ji = 0
  /\ doProcess = 0
  /\ processCallback = FALSE
  /\ active = FALSE
  /\ portsIn = [i \in 1..nIn |-> "unset"]
  /\ portsOut = [i \in 1..nOut |-> "unset"]
  /\ connIn = [i \in 1..nIn |-> "no"]
  /\ connOut = [i \in 1..nOut |-> "no"]
  /\ ppc = "idle"
  /\ gate = "unread"
  /\ fetched = FALSE
  /\ fired = 0
  /\ ret = "none"

\* ---------------------------------------------------------------- actions
\* Channel() noexcept {}
NewChannel(ch) ==
  /\ ~crashed
  /\ NextFree(chanLife, ch)
  /\ chanLife' = [chanLife EXCEPT ![ch] = "live"]
  /\ consumers_' = [consumers_ EXCEPT ![ch] = << >>]
  /\ producer_' = [producer_ EXCEPT ![ch] = nullptr]
  /\ log' = << >>
  /\ last' = Op("NewChannel", 0, ch, 0, 0)
  /\ UNCHANGED <<prodLife, consLife, channels_, channel_, state_, got, orphaned, crashed>>
  /\ UNCHANGED jvars

\* a registration at the front of the collection
internal_add_consumer_front(cs, c) == <<c>> \o cs

\* a registration that is forgotten
internal_add_consumer_skip(cs, c) == cs

\* Channel::internal_add_consumer: consumers_.push_back(c)
internal_add_consumer(cs, c) == Append(cs, c)

\* Producer::internal_remove_channel: std::erase(channels_, &ch)
internal_remove_channel(chs, ch) == erase(chs, ch)

\* every Consumer is severed, whatever Channel it is bound to
SeverConsumers_all(cs) == [c \in Consumers |-> nullptr]

\* only the first registered Consumer is severed
SeverConsumers_first(cs) ==
  [c \in Consumers |-> IF cs # << >> /\ c = Head(cs) THEN nullptr ELSE channel_[c]]

\* ~Channel(): for (auto* c : consumers_) c->channel_ = nullptr;
SeverConsumers(cs) ==
  [c \in Consumers |-> IF c \in Range(cs) THEN nullptr ELSE channel_[c]]

\* ~Channel()
DestroyChannel(ch) ==
  /\ ~crashed
  /\ chanLife[ch] = "live"
  /\ chanLife' = [chanLife EXCEPT ![ch] = "dead"]
  /\ channel_' = SeverConsumers(consumers_[ch])
  /\ channels_' = IF producer_[ch] # nullptr
                  THEN [channels_ EXCEPT ![producer_[ch]] = internal_remove_channel(@, ch)]
                  ELSE channels_
  /\ producer_' = [producer_ EXCEPT ![ch] = nullptr]
  /\ orphaned' = orphaned \ {ch}
  /\ log' = << >>
  /\ last' = Op("DestroyChannel", 0, ch, 0, 0)
  /\ UNCHANGED <<prodLife, consLife, consumers_, state_, got, crashed>>
  /\ UNCHANGED jvars

\* the new Producer is taken away from every other Channel it was bound to
set_producer_exclusive(pr, chs, ch, p) ==
  [producer |-> [x \in Channels |->
                   IF x = ch THEN p
                   ELSE IF p # nullptr /\ pr[x] = p THEN nullptr ELSE pr[x]],
   channels |-> IF p # nullptr THEN [chs EXCEPT ![p] = Append(@, ch)] ELSE chs]

\* producer_ is set but the Channel is not entered in p->channels_
set_producer_noadd(pr, chs, ch, p) ==
  [producer |-> [pr EXCEPT ![ch] = p], channels |-> chs]

\* Channel::set_producer(Producer* p): the effect on producer_ and channels_
set_producer(pr, chs, ch, p) ==
  [producer |-> [pr EXCEPT ![ch] = p],
   channels |-> IF p # nullptr THEN [chs EXCEPT ![p] = Append(@, ch)] ELSE chs]

SetProducer(ch, p) ==
  /\ ~crashed
  /\ chanLife[ch] = "live"
  /\ IF p = nullptr THEN TRUE
     ELSE prodLife[p] = "live" /\ Len(channels_[p]) < MaxLinks
  /\ LET r == set_producer(producer_, channels_, ch, p)
     IN  producer_' = r.producer /\ channels_' = r.channels
  /\ log' = << >>
  /\ last' = Op("set_producer", p, ch, 0, 0)
  /\ UNCHANGED <<chanLife, prodLife, consLife, consumers_, channel_, state_, got, orphaned, crashed>>
  /\ UNCHANGED jvars

\* Producer(Channel& ch) { ch.set_producer(this); }
NewProducer(p, ch) ==
  /\ ~crashed
  /\ NextFree(prodLife, p)
  /\ chanLife[ch] = "live"
  /\ prodLife' = [prodLife EXCEPT ![p] = "live"]
  /\ LET r == set_producer(producer_, [channels_ EXCEPT ![p] = << >>], ch, p)
     IN  producer_' = r.producer /\ channels_' = r.channels
  /\ log' = << >>
  /\ last' = Op("NewProducer", p, ch, 0, 0)
  /\ UNCHANGED <<chanLife, consLife, consumers_, channel_, state_, got, orphaned, crashed>>
  /\ UNCHANGED jvars

\* a destructor that clears only the first linked Channel
ClearProducers_first(pr, chs) ==
  IF chs = << >> \/ chanLife[Head(chs)] # "live" THEN pr
  ELSE [pr EXCEPT ![Head(chs)] = nullptr]

\* ~Producer(): for (auto* ch : channels_) ch->set_producer(nullptr);
\* The store through a pointer to a destroyed Channel changes no live object
\* here; the run in which it faults is ProducerFault.
RECURSIVE ClearProducers(_, _)
ClearProducers(pr, chs) ==
  IF chs = << >> THEN pr
  ELSE LET ch == Head(chs)
           pr1 == IF chanLife[ch] = "live"
                  THEN set_producer(pr, channels_, ch, nullptr).producer
                  ELSE pr
       IN  ClearProducers(pr1, Tail(chs))

DestroyProducer(p) ==
  /\ ~crashed
  /\ prodLife[p] = "live"
  /\ prodLife' = [prodLife EXCEPT ![p] = "dead"]
  /\ producer_' = ClearProducers(producer_, channels_[p])
  /\ channels_' = [channels_ EXCEPT ![p] = << >>]
  /\ orphaned' = orphaned \cup {ch \in LiveChannels : producer_[ch] = p}
  /\ log' = << >>
  /\ last' = Op("DestroyProducer", p, 0, 0, 0)
  /\ UNCHANGED <<chanLife, consLife, consumers_, channel_, state_, got, crashed>>
  /\ UNCHANGED jvars

\* Consumer(Channel& ch) : channel_(&ch) { ch.internal_add_consumer(this); }
NewConsumer(c, ch) ==
  /\ ~crashed
  /\ NextFree(consLife, c)
  /\ chanLife[ch] = "live"
  /\ consLife' = [consLife EXCEPT ![c] = "live"]
  /\ channel_' = [channel_ EXCEPT ![c] = ch]
  /\ state_' = [state_ EXCEPT ![c] = DefaultState]
  /\ consumers_' = [consumers_ EXCEPT ![ch] = internal_add_consumer(@, c)]
  /\ log' = << >>
  /\ last' = Op("NewConsumer", 0, ch, c, 0)
  /\ UNCHANGED <<chanLife, prodLife, producer_, channels_, got, orphaned, crashed>>
  /\ UNCHANGED jvars

\* ~Consumer(): if (channel_) std::erase(channel_->consumers_, this);
DestroyConsumer(c) ==
  /\ ~crashed
  /\ consLife[c] = "live"
  /\ consLife' = [consLife EXCEPT ![c] = "dead"]
  /\ consumers_' = IF channel_[c] # nullptr
                   THEN [consumers_ EXCEPT ![channel_[c]] = erase(@, c)]
                   ELSE consumers_
  /\ channel_' = [channel_ EXCEPT ![c] = nullptr]
  /\ state_' = [state_ EXCEPT ![c] = DefaultState]
  /\ got' = [got EXCEPT ![c] = FALSE]
  /\ log' = << >>
  /\ last' = Op("DestroyConsumer", 0, channel_[c], c, 0)
  /\ UNCHANGED <<chanLife, prodLife, producer_, channels_, orphaned, crashed>>
  /\ UNCHANGED jvars

\* Producer::produce(const State& s), called by a subclass of Producer
Produce(p, s) ==
  /\ ~crashed
  /\ prodLife[p] = "live"
  /\ \E ub \in {"empty", "stale"} :
       /\ ub = "stale" => Dangling(p)
       /\ LET m == Producer_produce([state |-> state_, log |-> << >>, got |-> got],
                                    channels_[p], s, ub)
          IN  state_' = m.state /\ log' = m.log /\ got' = m.got
  /\ last' = Op("produce", p, 0, 0, s)
  /\ UNCHANGED <<chanLife, prodLife, consLife, consumers_, producer_, channels_,
                 channel_, orphaned, crashed>>
  /\ UNCHANGED jvars

\* produce() or ~Producer() of a Producer that holds a dangling Channel
\* pointer dereferences freed storage; the process may be terminated there.
ProducerFault(p) ==
  /\ ~crashed
  /\ prodLife[p] = "live"
  /\ Dangling(p)
  /\ crashed' = TRUE
  /\ log' = << >>
  /\ last' = Op("fault", p, 0, 0, 0)
  /\ UNCHANGED <<chanLife, prodLife, consLife, consumers_, producer_, channels_,
                 channel_, state_, got, orphaned>>
  /\ UNCHANGED jvars

Next ==
  \/ \E ch \in Channels : NewChannel(ch)
  \/ \E ch \in Channels : DestroyChannel(ch)
  \/ \E ch \in Channels, p \in Producers \cup {nullptr} : SetProducer(ch, p)
  \/ \E p \in Producers, ch \in Channels : NewProducer(p, ch)
  \/ \E p \in Producers : DestroyProducer(p)
  \/ \E c \in Consumers, ch \in Channels : NewConsumer(c, ch)
  \/ \E c \in Consumers : DestroyConsumer(c)
  \/ \E p \in Producers, s \in States : Produce(p, s)
  \/ \E p \in Producers : ProducerFault(p)

Spec == Init /\ [][Next]_vars

\* ---------------------------------------------------------------- audio::jack
\* init(): client = jack_client_open(...).  What GLOB.doProcess holds when
\* init() starts is not set in this file: either value.
JackOpen ==
  /\ jpc = "open"
  /\ jpc' = "preInit"
  /\ doProcess' \in {0, 1}
  /\ UNCHANGED <<ji, processCallback, active, portsIn, portsOut, connIn, connOut,
                 ppc, gate, fetched, fired, ret>>
  /\ UNCHANGED ivars

\* the statements of init() that touch none of the modelled state:
\* events.preInit(), jack_set_sample_rate_callback, jack_get_sample_rate,
\* events.postInit(); then while (1) sleep(10)
AfterSkip(pc) ==
  CASE pc = "preInit" -> "status"
    [] pc = "setsrate" -> "activate1"
    [] pc = "srate" -> "regIn"
    [] pc = "postInit" -> "sleep"

JackSkip ==
  /\ jpc \in {"preInit", "setsrate", "srate", "postInit"}
  /\ jpc' = AfterSkip(jpc)
  /\ UNCHANGED <<ji, doProcess, processCallback, active, portsIn, portsOut, connIn,
                 connOut, ppc, gate, fetched, fired, ret>>
  /\ UNCHANGED ivars

\* if (!(GLOB.jackStatus & JackServerStarted)) { ...; exit(1); }
JackStatus ==
  /\ jpc = "status"
  /\ jpc' \in {"clear", "exit"}
  /\ UNCHANGED <<ji, doProcess, processCallback, active, portsIn, portsOut, connIn,
                 connOut, ppc, gate, fetched, fired, ret>>
  /\ UNCHANGED ivars

\* GLOB.doProcess = 0;
JackClear ==
  /\ jpc = "clear"
  /\ doProcess' = 0
  /\ jpc' = "setcb"
  /\ UNCHANGED <<ji, processCallback, active, portsIn, portsOut, connIn, connOut,
                 ppc, gate, fetched, fired, ret>>
  /\ UNCHANGED ivars

\* jack_set_process_callback(client, process, NULL);
JackSetProcessCallback ==
  /\ jpc = "setcb"
  /\ processCallback' = TRUE
  /\ jpc' = "setsrate"
  /\ UNCHANGED <<ji, doProcess, active, portsIn, portsOut, connIn, connOut,
                 ppc, gate, fetched, fired, ret>>
  /\ UNCHANGED ivars

\* if (jack_activate(client)) LOGF << ...;  jack_activate(client);
JackActivate ==
  /\ jpc \in {"activate1", "activate2"}
  /\ \E ok \in BOOLEAN : active' = (active \/ ok)
  /\ jpc' = IF jpc = "activate1" THEN "activate2" ELSE "srate"
  /\ UNCHANGED <<ji, doProcess, processCallback, portsIn, portsOut, connIn, connOut,
                 ppc, gate, fetched, fired, ret>>
  /\ UNCHANGED ivars

\* setupPorts(): GLOB.ports.in[i] = jack_port_register(...); a NULL is logged
RegisterInput ==
  /\ jpc = "regIn"
  /\ \E r \in {"ok", "null"} : portsIn' = [portsIn EXCEPT ![ji + 1] = r]
  /\ IF ji + 1 < nIn THEN ji' = ji + 1 /\ jpc' = jpc
     ELSE ji' = 0 /\ jpc' = "regOut"
  /\ UNCHANGED <<doProcess, processCallback, active, portsOut, connIn, connOut,
                 ppc, gate, fetched, fired, ret>>
  /\ UNCHANGED ivars

\* GLOB.ports.outL = registerOutput("outLeft"); GLOB.ports.outR = ...("outRight");
RegisterOutput ==
  /\ jpc = "regOut"
  /\ \E r \in {"ok", "null"} : portsOut' = [portsOut EXCEPT ![ji + 1] = r]
  /\ IF ji + 1 < nOut THEN ji' = ji + 1 /\ jpc' = jpc
     ELSE ji' = 0 /\ jpc' = "findIn"
  /\ UNCHANGED <<doProcess, processCallback, active, portsIn, connIn, connOut,
                 ppc, gate, fetched, fired, ret>>
  /\ UNCHANGED ivars

\* findPorts: if (ports == NULL) { ...; jack_client_close(GLOB.client); exit(1); }
FindPorts ==
  /\ jpc \in {"findIn", "findOut"}
  /\ \E found \in BOOLEAN :
       IF found THEN /\ jpc' = IF jpc = "findIn" THEN "findOut" ELSE "connIn"
                     /\ active' = active
       ELSE jpc' = "exit" /\ active' = FALSE
  /\ UNCHANGED <<ji, doProcess, processCallback, portsIn, portsOut, connIn, connOut,
                 ppc, gate, fetched, fired, ret>>
  /\ UNCHANGED ivars

\* what connectPort does: jack_connect fails -> logged, nothing else
connectPort(port) == IF port = "ok" THEN {"yes", "failed"} ELSE {"failed"}

\* for (i < GLOB.nIn) connectPort(jack_port_name(GLOB.ports.in[i]), inputs[i % ninputs]);
ConnectInput ==
  /\ jpc = "connIn"
  /\ \E r \in connectPort(portsIn[ji + 1]) : connIn' = [connIn EXCEPT ![ji + 1] = r]
  /\ IF ji + 1 < nIn THEN ji' = ji + 1 /\ jpc' = jpc
     ELSE ji' = 0 /\ jpc' = "connOut"
  /\ UNCHANGED <<doProcess, processCallback, active, portsIn, portsOut, connOut,
                 ppc, gate, fetched, fired, ret>>
  /\ UNCHANGED ivars

\* for (i < GLOB.nOut) connectPort(outputs[i % noutputs], jack_port_name(GLOB.ports.out[i]));
ConnectOutput ==
  /\ jpc = "connOut"
  /\ \E r \in connectPort(portsOut[ji + 1]) : connOut' = [connOut EXCEPT ![ji + 1] = r]
  /\ IF ji + 1 < nOut THEN ji' = ji + 1 /\ jpc' = jpc
     ELSE ji' = 0 /\ jpc' = "enable"
  /\ UNCHANGED <<doProcess, processCallback, active, portsIn, portsOut, connIn,
                 ppc, gate, fetched, fired, ret>>
  /\ UNCHANGED ivars

\* GLOB.doProcess = 1;
JackEnable ==
  /\ jpc = "enable"
  /\ doProcess' = 1
  /\ jpc' = "postInit"
  /\ UNCHANGED <<ji, processCallback, active, portsIn, portsOut, connIn, connOut,
                 ppc, gate, fetched, fired, ret>>
  /\ UNCHANGED ivars

\* The JACK thread calls process(): if (!GLOB.doProcess) return 0;
\* The read races with the stores of init(); it yields the value stored last.
ProcessEnter ==
  /\ processCallback /\ active
  /\ jpc # "exit"
  /\ ppc = "idle"
  /\ fetched' = FALSE
  /\ fired' = 0
  /\ IF doProcess = 0
     THEN gate' = "0" /\ ret' = "0" /\ ppc' = "idle"
     ELSE gate' = "1" /\ ret' = "none" /\ ppc' = "buffers"
  /\ UNCHANGED <<jpc, ji, doProcess, processCallback, active, portsIn, portsOut,
                 connIn, connOut>>
  /\ UNCHANGED ivars

\* GLOB.data.out[i] = jack_port_get_buffer(GLOB.ports.out[i], nframes); same for in;
\* memset(data, 0, SAMPLE_SIZE).  With a port that was never registered the
\* buffer is no buffer: the thread may die in the memset.
ProcessBuffers ==
  /\ ppc = "buffers"
  /\ fetched' = TRUE
  /\ \/ ppc' = "events"
     \/ (\E i \in 1..nOut : portsOut[i] # "ok") /\ ppc' = "fault"
  /\ UNCHANGED <<jpc, ji, doProcess, processCallback, active, portsIn, portsOut,
                 connIn, connOut, gate, fired, ret>>
  /\ UNCHANGED ivars

\* GLOB.events.preProcess / process1 / process2 / postProcess (nframes)
ProcessEvent ==
  /\ ppc = "events"
  /\ fired < 4
  /\ fired' = fired + 1
  /\ ppc' = IF fired + 1 = 4 THEN "return" ELSE ppc
  /\ UNCHANGED <<jpc, ji, doProcess, processCallback, active, portsIn, portsOut,
                 connIn, connOut, gate, fetched, ret>>
  /\ UNCHANGED ivars

\* return 0;
ProcessReturn ==
  /\ ppc = "return"
  /\ ret' = "0"
  /\ ppc' = "idle"
  /\ UNCHANGED <<jpc, ji, doProcess, processCallback, active, portsIn, portsOut,
                 connIn, connOut, gate, fetched, fired>>
  /\ UNCHANGED ivars

JackNext ==
  \/ JackOpen
  \/ JackSkip
  \/ JackStatus
  \/ JackClear
  \/ JackSetProcessCallback
  \/ JackActivate
  \/ RegisterInput
  \/ RegisterOutput
  \/ FindPorts
  \/ ConnectInput
  \/ ConnectOutput
  \/ JackEnable
  \/ ProcessEnter
  \/ ProcessBuffers
  \/ ProcessEvent
  \/ ProcessReturn

SpecJack == Init /\ [][JackNext]_vars

TypeOK ==
  /\ \A ch \in Channels : producer_[ch] \in Producers \cup {nullptr}
  /\ \A p \in Producers : Len(channels_[p]) <= MaxLinks
  /\ \A c \in Consumers : channel_[c] \in Channels \cup {nullptr} /\ state_[c] \in States

\* ---------------------------------------------------------------- claims

\* C1: no live participant holds a reference to a destroyed participant: no
\* live Producer's channels() contains a destroyed Channel, no live Channel's
\* producer() is a destroyed Producer, no live Channel's consumers() contains a
\* destroyed Consumer, no live Consumer's channel() is a destroyed Channel.
NoReferenceToDestroyed ==
  /\ \A p \in LiveProducers : \A ch \in Range(channels_[p]) : chanLife[ch] # "dead"
  /\ \A ch \in LiveChannels : producer_[ch] # nullptr => prodLife[producer_[ch]] # "dead"
  /\ \A ch \in LiveChannels : \A c \in Range(consumers_[ch]) : consLife[c] # "dead"
  /\ \A c \in LiveConsumers : channel_[c] # nullptr => chanLife[channel_[c]] # "dead"

\* C2: after p.produce(S) has returned, every live Consumer registered on a
\* live Channel that p is bound to (the Channel's producer() is p, or the
\* Channel is in p.channels()) has state() = S.
BroadcastFanOut ==
  last.op = "produce" =>
    \A ch \in LiveChannels :
      (producer_[ch] = last.p \/ ch \in Range(channels_[last.p])) =>
        \A c \in Range(consumers_[ch]) : consLife[c] = "live" => state_[c] = last.s

\* two Channels bound to the producing Producer, each with a Consumer
BroadcastFanOutWitness ==
  /\ last.op = "produce"
  /\ last.s # DefaultState
  /\ \E ch1, ch2 \in LiveChannels :
       /\ ch1 # ch2
       /\ producer_[ch1] = last.p /\ producer_[ch2] = last.p
       /\ consumers_[ch1] # << >> /\ consumers_[ch2] # << >>

\* C3: the step that destroys a Channel sets channel() to none on every
\* Consumer registered on it, destroys none of them and leaves their cached
\* state as it was.
ChannelDestructionSevers ==
  [][\A ch \in Channels :
       (chanLife[ch] = "live" /\ chanLife'[ch] = "dead") =>
         \A c \in Consumers :
           (c \in Range(consumers_[ch]) \/ (consLife[c] = "live" /\ channel_[c] = ch)) =>
             /\ channel_'[c] = nullptr
             /\ consLife[c] = "live" /\ consLife'[c] = "live"
             /\ state_'[c] = state_[c]]_vars

\* a Channel was just destroyed under two Consumers, one holding a produced value
ChannelDestructionSeversWitness ==
  /\ last.op = "DestroyChannel"
  /\ Len(consumers_[last.ch]) = 2
  /\ \A c \in Range(consumers_[last.ch]) : consLife[c] = "live" /\ channel_[c] = nullptr
  /\ \E c \in Range(consumers_[last.ch]) : state_[c] # DefaultState

\* C4: the step that destroys a Producer p leaves producer() = none on every
\* Channel whose producer() was p, each such Channel alive with consumers()
\* unchanged; and a produce(S) of a Producer bound afterwards to such a Channel
\* leaves S in that Channel's Consumers.
ProducerDestructionClears ==
  [][/\ \A p \in Producers :
          (prodLife[p] = "live" /\ prodLife'[p] = "dead") =>
            \A ch \in LiveChannels :
              producer_[ch] = p =>
                /\ producer_'[ch] = nullptr
                /\ chanLife'[ch] = "live"
                /\ consumers_'[ch] = consumers_[ch]
     /\ last'.op = "produce" =>
          \A ch \in orphaned' :
            (chanLife'[ch] = "live" /\ producer_'[ch] = last'.p) =>
              \A c \in Range(consumers_'[ch]) : state_'[c] = last'.s]_vars

\* a Channel that lost its Producer got another one, which produced
ProducerDestructionClearsWitness ==
  /\ last.op = "produce"
  /\ last.s # DefaultState
  /\ \E ch \in orphaned :
       /\ chanLife[ch] = "live"
       /\ producer_[ch] = last.p
       /\ consumers_[ch] # << >>

DefaultStateBeforeFirstBroadcast ==
  \A c \in LiveConsumers : ~got[c] => state_[c] = DefaultState

\* a produce() reached another Consumer, this one has received nothing
DefaultStateBeforeFirstBroadcastWitness ==
  /\ last.op = "produce"
  /\ last.s # DefaultState
  /\ log # << >>
  /\ \E c \in LiveConsumers : ~got[c] /\ state_[c] = DefaultState

\* C8: for every live Channel ch, every Consumer in ch.consumers() is live and
\* has channel() = ch, no Consumer appears twice, and every live Consumer with
\* channel() = ch is in ch.consumers().
ChannelConsumerAssociation ==
  \A ch \in LiveChannels :
    /\ \A i \in DOMAIN consumers_[ch] :
         /\ consLife[consumers_[ch][i]] = "live"
         /\ channel_[consumers_[ch][i]] = ch
         /\ \A j \in DOMAIN consumers_[ch] : consumers_[ch][j] = consumers_[ch][i] => j = i
    /\ \A c \in LiveConsumers : channel_[c] = ch => c \in Range(consumers_[ch])

\* a Consumer is registered on a live Channel after another one was destroyed
\* and a third party (a Channel) was destroyed as well
ChannelConsumerAssociationWitness ==
  /\ \E ch \in LiveChannels : consumers_[ch] # << >>
  /\ \E c \in Consumers : consLife[c] = "dead"
  /\ \E ch \in Channels : chanLife[ch] = "dead"

\* C9: for every live Channel ch whose producer() is some Producer p, p is live
\* and p.channels() contains ch.
ChannelToProducer ==
  \A ch \in LiveChannels :
    producer_[ch] # nullptr =>
      /\ prodLife[producer_[ch]] = "live"
      /\ ch \in Range(channels_[producer_[ch]])

\* a Channel is bound to a live Producer after another Producer was destroyed
ChannelToProducerWitness ==
  /\ \E ch \in LiveChannels : producer_[ch] # nullptr
  /\ \E p \in Producers : prodLife[p] = "dead"

\* C10: for every live Producer p and every entry ch of p.channels(), ch is a
\* live Channel and ch.producer() = p.
ProducerToChannel ==
  \A p \in LiveProducers :
    \A ch \in Range(channels_[p]) : chanLife[ch] = "live" /\ producer_[ch] = p

\* C11: a Consumer's channel() is the Channel it was constructed with while
\* that Channel is alive, turns none in the step that destroys that Channel and
\* in no other, and once none stays none.
ConsumerBindingStateMachine ==
  [][\A c \in Consumers :
       /\ (consLife[c] = "unborn" /\ consLife'[c] = "live") =>
            /\ last'.op = "NewConsumer" /\ last'.c = c
            /\ channel_'[c] = last'.ch
            /\ chanLife'[last'.ch] = "live"
       /\ (consLife[c] = "live" /\ consLife'[c] = "live") =>
            IF channel_[c] = nullptr THEN channel_'[c] = nullptr
            ELSE /\ chanLife[channel_[c]] = "live"
                 /\ channel_'[c] = IF chanLife'[channel_[c]] = "live"
                                   THEN channel_[c] ELSE nullptr]_vars

\* a severed Consumer is still severed after its Producer broadcast again,
\* next to a Consumer that is bound to a live Channel
ConsumerBindingStateMachineWitness ==
  /\ last.op = "produce"
  /\ \E c \in LiveConsumers : channel_[c] = nullptr /\ got[c]
  /\ \E c \in LiveConsumers : channel_[c] # nullptr /\ chanLife[channel_[c]] = "live"

\* C12: once a Consumer's Channel has been destroyed, no later operation
\* invokes its on_new_state hook or changes its cached state.
SeveredReceivesNothing ==
  [][\A c \in Consumers :
       (consLife[c] = "live" /\ consLife'[c] = "live" /\ channel_[c] = nullptr) =>
         /\ state_'[c] = state_[c]
         /\ \A i \in DOMAIN log' : log'[i].c # c]_vars

SetProducerPostAndFrame ==
  [][last'.op = "set_producer" =>
       LET ch == last'.ch
           p == last'.p
       IN  /\ producer_'[ch] = p
           /\ p # nullptr =>
                /\ channels_'[p] # << >>
                /\ channels_'[p][Len(channels_'[p])] = ch
           /\ consumers_' = consumers_
           /\ channel_' = channel_
           /\ state_' = state_
           /\ \A x \in Channels : x # ch => producer_'[x] = producer_[x]]_vars

\* a Channel with a Consumer that holds a produced value was just bound to a
\* Producer that is also the Producer of another Channel
SetProducerPostAndFrameWitness ==
  /\ last.op = "set_producer"
  /\ last.p # nullptr
  /\ \E x \in LiveChannels : x # last.ch /\ producer_[x] = last.p
  /\ \E c \in Range(consumers_[last.ch]) : state_[c] # DefaultState

\* C15: a produce(S) call leaves every producer(), channels(), consumers() and
\* channel() unchanged and changes the cached state of no Consumer other than
\* those registered on a Channel linked to the calling Producer.
ProduceChangesOnlyCachedStates ==
  [][last'.op = "produce" =>
       /\ producer_' = producer_
       /\ channels_' = channels_
       /\ consumers_' = consumers_
       /\ channel_' = channel_
       /\ \A c \in Consumers :
            state_'[c] # state_[c] =>
              /\ channel_[c] # nullptr
              /\ channel_[c] \in Range(channels_[last'.p])
              /\ c \in Range(consumers_[channel_[c]])]_vars

\* C16: a produce(S) of Producer p reaches the Consumers of a Channel ch only
\* if ch.producer() = p at the time of the call.
SingleSourcePerChannel ==
  last.op = "produce" =>
    \A i \in DOMAIN log :
      channel_[log[i].c] # nullptr => producer_[channel_[log[i].c]] = last.p

\* C17: a Channel appears at most once in a live Producer's channels(), and
\* one produce(S) invokes on_new_state at most once on each Consumer.
ExactlyOnceDelivery ==
  /\ \A p \in LiveProducers :
       \A i, j \in DOMAIN channels_[p] : channels_[p][i] = channels_[p][j] => i = j
  /\ \A i, j \in DOMAIN log : log[i].c = log[j].c => i = j

\* C18: the step that destroys a Producer p leaves producer() unchanged on
\* every Channel whose producer() is another Producer.
ProducerDestructionOwnBindingsOnly ==
  [][\A p \in Producers :
       (prodLife[p] = "live" /\ prodLife'[p] = "dead") =>
         \A ch \in LiveChannels :
           (producer_[ch] # nullptr /\ producer_[ch] # p) =>
             producer_'[ch] = producer_[ch]]_vars

\* C19: init() has set doProcess to 0 when the process callback is registered
\* and it stays 0 until setupPorts() sets it; doProcess is 1 only after all
\* input and output ports have been registered and connected; a process()
\* invocation that finds doProcess 0 returns 0 without fetching a port buffer
\* and without firing a process event.
JackProcessGating ==
  /\ (processCallback /\ jpc \notin {"postInit", "sleep"}) => doProcess = 0
  /\ (processCallback /\ doProcess = 1) =>
       /\ \A i \in 1..nIn : portsIn[i] = "ok" /\ connIn[i] = "yes"
       /\ \A i \in 1..nOut : portsOut[i] = "ok" /\ connOut[i] = "yes"
  /\ gate = "0" => (ppc = "idle" /\ ret = "0" /\ ~fetched /\ fired = 0)
====
